---------------------------- MODULE Spec2Model ----------------------------
(***************************************************************************)
(* Model of the research pipeline of src/python:                           *)
(*   agent_service.py  checkpoint store (save_checkpoint, load_checkpoint),*)
(*                     the three stages, run_full and the stream_run       *)
(*                     generator;                                          *)
(*   worker.py         the job loop that relays stream_run's events to a   *)
(*                     Redis pub/sub channel, and the event normalizer;    *)
(*   main.py           api_stream, which hands the generator to the HTTP   *)
(*                     response, and api_run, which calls run_full.        *)
(* Specifications: Spec (the job loop), StreamSpec (job loop and streaming *)
(* endpoint, with fairness), StoreSpec (the checkpoint store alone),       *)
(* RunSpec (blocking and streaming runs over the store), NormSpec (the     *)
(* event normalizer on texts).                                             *)
(* Text is modelled as a sequence of tokens, JSON values as TLA+ values.   *)
(***************************************************************************)
EXTENDS Naturals, Sequences, FiniteSets, TLC

VARIABLES
    memory,         \* agent_service.memory: None, or the methods the object has
    down,           \* environment: every checkpoint backend call of a run raises
    memStore,       \* what memory.save_checkpoint stored, per (user_id, thread_id)
    blobStore,      \* what memory.save / memory.write stored, per blob name
    redisStore,     \* redis_client: key string -> JSON text of a state, or NoValue
    lastSave,       \* history: per (user_id, thread_id), the last save_checkpoint call
    lastCall,       \* history: the last save/load call, the backends it tried, its result
    nreq,           \* number of queue messages and HTTP requests still to come
    faults,         \* number of injected failures (raising calls) so far
    event_channel,  \* worker.py module global (survives loop iterations)
    driver,         \* who iterates the stream_run generator: "none", "worker", "api"
    gen,            \* the stream_run generator: position, arguments, local state
    yielded,        \* history: the events the current generator has yielded
    outcome,        \* history: how the current generator's iteration ended
    handled,        \* history: per yielded event, how the worker's handling went
    jobLog,         \* history: the _publish_object calls made for the current job
    chan,           \* Redis pub/sub: the last message delivered on each output channel
    sentNow,        \* history: the messages the last step delivered, with their channel
    lastMsg,        \* history: the queue message handled by the last worker step
    saveLog,        \* history: the save_checkpoint calls of the runs in progress
    runs,           \* the run_full calls: position, arguments, local state, result
    raw_text,       \* a text handed to _process_and_publish_event
    published,      \* the objects _process_and_publish_event published for raw_text
    stdin,          \* typewriter client: the text still to be read from sys.stdin
    stdout,         \* typewriter client: what was written to sys.stdout
    stderr,         \* typewriter client: the markers printed to sys.stderr
    stream_text,    \* history: the whole text the client was given
    client          \* typewriter client: "idle", "reading" or "done"

storeVars  == <<memory, down, memStore, blobStore, redisStore>>
storeHist  == <<lastSave, lastCall>>
workerVars == <<event_channel, driver, gen, yielded, outcome, handled, jobLog, chan,
               sentNow, lastMsg>>
clientVars == <<stdin, stdout, stderr, stream_text, client>>
otherVars == <<runs, raw_text, published, clientVars>>
vars == <<memory, down, memStore, blobStore, redisStore, lastSave, lastCall,
          nreq, faults, event_channel, driver, gen, yielded, outcome, handled,
          jobLog, chan, sentNow, lastMsg, saveLog, runs, raw_text, published,
          stdin, stdout, stderr, stream_text, client>>

---------------------------------------------------------------------------
(* Bounds of the model *)

MaxReq == 2          \* queue messages taken by the worker
MaxFaults == 1       \* injected failures per behaviour
MaxStoreOps == 2     \* save/load calls in the store specification
MaxText == 4         \* tokens added to a text in the normalizer specification
MaxInput == 5        \* tokens of the text given to the typewriter client

---------------------------------------------------------------------------
(* Data *)

CHECKPOINT_NS == "financeResearch"
Users == {"u1", "u1:t"}
Threads == {"t1", "t:2", "2"}
Questions == {"q1", "q2"}
Channels == {"c1", "c2"}
\* the conversations: the ids are any strings of the request, among them
\* strings with the ':' that _compose_key puts between them
Ids == {<<"u1", "t1">>, <<"u1", "t:2">>, <<"u1:t", "2">>}

None == "None"
NoValue == [absent |-> TRUE]

EmptyState == [k \in {} |-> 0]

\* an assignment that keeps the value a key already has
PutIfAbsent(state, k, v) == IF k \in DOMAIN state THEN state ELSE (k :> v) @@ state

Put(state, k, v) == (k :> v) @@ state

Get(state, k, default) == IF k \in DOMAIN state THEN state[k] ELSE default

\* dict.update
Update(state, other) == other @@ state

Last(s) == s[Len(s)]

---------------------------------------------------------------------------
(* Text: sequences of tokens *)

Sp == [k |-> "sp"]
Nl == [k |-> "nl"]
DataPrefix == [k |-> "data:"]
LBrace == [k |-> "{"]
RBrace == [k |-> "}"]
Word == [k |-> "word"]

\* json.dumps(v): one token holding the value
Json(v) == [k |-> "json", v |-> v]

IsWs(t) == t.k \in {"sp", "nl"}

\* texts: sequences of tokens; the recursive operations on them are functions,
\* which take their argument as a value
Texts == Seq(Any)

LStrip[s \in Texts] == IF s # <<>> /\ IsWs(Head(s)) THEN LStrip[Tail(s)] ELSE s

RStrip[s \in Texts] == IF s # <<>> /\ IsWs(Last(s)) THEN RStrip[SubSeq(s, 1, Len(s) - 1)] ELSE s

\* str.strip
Strip(s) == RStrip[LStrip[s]]

\* json.loads: [ok |-> FALSE] when it raises
ParseFail == [ok |-> FALSE]

JsonLoads(s) ==
    LET t == Strip(s)
    IN  IF Len(t) = 1 /\ t[1].k = "json" THEN [ok |-> TRUE, v |-> t[1].v]
        ELSE IF Len(t) >= 2 /\ t[1] = LBrace /\ Last(t) = RBrace
                /\ \A i \in 2..(Len(t) - 1) : IsWs(t[i])
             THEN [ok |-> TRUE, v |-> EmptyState]
        ELSE ParseFail


---------------------------------------------------------------------------
(* typewriter_client.py: the command-line consumer *)

\* the text '--- LABEL ---', without the newlines around it
Marker == [k |-> "marker"]

\* marker_pattern matches at i: a newline, a marker, a newline
MarkerAt(buf, i) ==
    /\ i + 2 <= Len(buf)
    /\ buf[i] = Nl
    /\ buf[i + 1] = Marker
    /\ buf[i + 2] = Nl

\* lines 26-47: what one pass over input_buffer writes to stdout and prints
\* to stderr: for each match the text before it and the marker, and after the
\* last match the rest of the buffer
Typewrite[buf \in Texts] ==
    IF \E i \in 1..Len(buf) : MarkerAt(buf, i)
    THEN LET i == CHOOSE i \in 1..Len(buf) :
                      MarkerAt(buf, i) /\ \A m \in 1..(i - 1) : ~MarkerAt(buf, m)
             rest == Typewrite[SubSeq(buf, i + 3, Len(buf))]
         IN  [out |-> SubSeq(buf, 1, i - 1) \o rest.out, err |-> <<Marker>> \o rest.err]
    ELSE [out |-> buf, err |-> <<>>]

\* the next line `for line in sys.stdin` gives: up to the first newline,
\* the newline included
LineEnd(text) ==
    IF \E i \in 1..Len(text) : text[i] = Nl
    THEN CHOOSE i \in 1..Len(text) : text[i] = Nl /\ \A m \in 1..(i - 1) : text[m] # Nl
    ELSE Len(text)

ClientIdle ==
    /\ stdin = <<>>
    /\ stdout = <<>>
    /\ stderr = <<>>
    /\ stream_text = <<>>
    /\ client = "idle"

---------------------------------------------------------------------------
(* worker.py: the event normalizer *)

IsDataPrefix(t) == t.k \in {"data:", "DATA:"}

\* DATA_PREFIX_RE.sub('', line, count=1): drops leading whitespace, the
\* data: field name (any case) and the whitespace after it
StripDataPrefix(line) ==
    LET l == LStrip[line]
    IN  IF l # <<>> /\ IsDataPrefix(Head(l)) THEN LStrip[Tail(l)] ELSE line

\* the end of the run of whitespace tokens that starts at i
WsRunEnd[s \in Texts, i \in Nat] == IF i < Len(s) /\ IsWs(s[i + 1]) THEN WsRunEnd[s, i + 1] ELSE i

\* SPLIT_SSE_RE matches at i: a newline, whitespace, and a newline again
SplitAt(s, i) ==
    /\ s[i] = Nl
    /\ \E j \in (i + 1)..WsRunEnd[s, i] : s[j] = Nl

\* the last newline of the whitespace run starting at i (the regex is greedy)
SplitEnd(s, i) ==
    CHOOSE j \in (i + 1)..WsRunEnd[s, i] :
        /\ s[j] = Nl
        /\ \A m \in (j + 1)..WsRunEnd[s, i] : s[m] # Nl

\* SPLIT_SSE_RE.split(raw_chunk)
SplitSse[s \in Texts] ==
    IF \E i \in 1..Len(s) : SplitAt(s, i)
    THEN LET i == CHOOSE i \in 1..Len(s) :
                      SplitAt(s, i) /\ \A m \in 1..(i - 1) : ~SplitAt(s, m)
             j == SplitEnd(s, i)
         IN  <<SubSeq(s, 1, i - 1)>> \o SplitSse[SubSeq(s, j + 1, Len(s))]
    ELSE <<s>>

\* str.splitlines
SplitLines[s \in Texts] ==
    IF s = <<>> THEN <<>>
    ELSE IF \E i \in 1..Len(s) : s[i] = Nl
         THEN LET i == CHOOSE i \in 1..Len(s) :
                           s[i] = Nl /\ \A m \in 1..(i - 1) : s[m] # Nl
              IN  <<SubSeq(s, 1, i - 1)>> \o SplitLines[SubSeq(s, i + 1, Len(s))]
         ELSE <<s>>

\* "\n".join(lines)
JoinLines[lines \in Seq(Texts)] ==
    IF lines = <<>> THEN <<>>
    ELSE IF Len(lines) = 1 THEN lines[1]
    ELSE lines[1] \o <<Nl>> \o JoinLines[Tail(lines)]

\* worker.py 69-80: the data lines of one block, merged
DataLines[lines \in Seq(Texts)] ==
    IF lines = <<>> THEN <<>>
    ELSE LET line == RStrip[Head(lines)]
         IN  IF line = <<>> THEN DataLines[Tail(lines)]
             ELSE <<StripDataPrefix(line)>> \o DataLines[Tail(lines)]

MergeBlock(block) == Strip(JoinLines[DataLines[SplitLines[block]]])

HasOpen(t) == t.k \in {"{", "json"}
HasClose(t) == t.k \in {"}", "json"}

\* worker.py 93-96: merged[jstart:jend + 1], or <<>> when there is no candidate
Candidate(merged) ==
    IF (\E i \in 1..Len(merged) : HasOpen(merged[i]))
       /\ (\E i \in 1..Len(merged) : HasClose(merged[i]))
    THEN LET a == CHOOSE i \in 1..Len(merged) :
                      HasOpen(merged[i]) /\ \A m \in 1..(i - 1) : ~HasOpen(merged[m])
             b == CHOOSE i \in 1..Len(merged) :
                      HasClose(merged[i]) /\ \A m \in (i + 1)..Len(merged) : ~HasClose(merged[m])
         IN  IF b > a \/ (b = a /\ merged[a].k = "json")
             THEN SubSeq(merged, a, b) ELSE <<>>
    ELSE <<>>

\* a parser without the extraction of the text between braces
ParseBlockNoExtract(merged) ==
    IF JsonLoads(merged).ok THEN JsonLoads(merged).v ELSE [raw |-> merged]

\* a parser that wraps every block as raw text
ParseBlockRaw(merged) == [raw |-> merged]

\* worker.py 85-106: the object published for one merged block
ParseBlock(merged) ==
    IF JsonLoads(merged).ok THEN JsonLoads(merged).v
    ELSE IF Candidate(merged) # <<>> /\ JsonLoads(Candidate(merged)).ok
         THEN JsonLoads(Candidate(merged)).v
    ELSE [raw |-> merged]

ParseBlocks[blocks \in Seq(Texts)] ==
    IF blocks = <<>> THEN <<>>
    ELSE LET merged == MergeBlock(Strip(Head(blocks)))
         IN  IF Strip(Head(blocks)) = <<>> \/ merged = <<>>
             THEN ParseBlocks[Tail(blocks)]
             ELSE <<ParseBlock(merged)>> \o ParseBlocks[Tail(blocks)]

\* a handler that stops after the first block it publishes
ProcessRawChunkFirst(raw_chunk) ==
    LET objs == ParseBlocks[SplitSse[raw_chunk]]
    IN  IF objs = <<>> THEN <<>> ELSE <<objs[1]>>

\* _process_and_publish_raw_chunk: the objects it publishes, in order
ProcessRawChunk(raw_chunk) == ParseBlocks[SplitSse[raw_chunk]]

\* an event handed to the worker: a dict/list, or text (str, or bytes decoded)
Structured(v) == [kind |-> "dict", v |-> v]
Text(s) == [kind |-> "str", s |-> s]

\* _process_and_publish_event: the objects it publishes, in order
ProcessEvent(event) ==
    IF event.kind = "dict" THEN <<event.v>>
    ELSE LET s_stripped == Strip(event.s)
         IN  IF s_stripped = <<>> THEN <<>>
             ELSE IF JsonLoads(s_stripped).ok THEN <<JsonLoads(s_stripped).v>>
             ELSE ProcessRawChunk(s_stripped)


---------------------------------------------------------------------------
(* agent_service.py: the checkpoint store *)

\* the shapes the module global `memory` can have: None (RedisSaver missing or
\* its constructor raised), or an object having some of the probed methods
MemoryMethods == {"save_checkpoint", "save", "write", "load_checkpoint"}
NoMemory == [present |-> FALSE, has |-> {}]
MemoryShapes == {NoMemory} \cup {[present |-> TRUE, has |-> h] : h \in SUBSET MemoryMethods}

\* which backend calls raise when a save or load makes them:
\*   structured  memory.save_checkpoint / memory.load_checkpoint
\*   save3       memory.save(namespace, name, state)
\*   save1       memory.save(state)
\*   write       memory.write(namespace, name, state)
\*   raw         redis_client.set / redis_client.get
CallFaults == [structured : BOOLEAN, save3 : BOOLEAN, save1 : BOOLEAN,
               write : BOOLEAN, raw : BOOLEAN]
NoFault == [structured |-> FALSE, save3 |-> FALSE, save1 |-> FALSE,
            write |-> FALSE, raw |-> FALSE]
AllFail == [structured |-> TRUE, save3 |-> TRUE, save1 |-> TRUE,
            write |-> TRUE, raw |-> TRUE]

_compose_key(namespace, user_id, thread_id) ==
    namespace \o ":" \o user_id \o ":" \o thread_id

\* f"{user_id}:{thread_id}"
BlobName(user_id, thread_id) == user_id \o ":" \o thread_id
SingleArg == "(state)"

RedisKeys == {_compose_key(CHECKPOINT_NS, id[1], id[2]) : id \in Ids}
BlobNames == {BlobName(id[1], id[2]) : id \in Ids} \cup {SingleArg}

\* a direct redis SET that reports success whether or not the SET raised
SaveRawOptimistic(st, tried, state, user_id, thread_id, f) ==
    [ok |-> TRUE, tried |-> Append(tried, "raw"), used |-> "raw",
     mem |-> st.mem, blob |-> st.blob,
     redis |-> IF f.raw THEN st.redis
               ELSE [st.redis EXCEPT ![_compose_key(CHECKPOINT_NS, user_id, thread_id)] = Json(state)]]

\* lines 97-102: the direct redis SET
SaveRaw(st, tried, state, user_id, thread_id, f) ==
    IF f.raw
    THEN [ok |-> FALSE, tried |-> Append(tried, "raw"), used |-> "none",
          mem |-> st.mem, blob |-> st.blob, redis |-> st.redis]
    ELSE [ok |-> TRUE, tried |-> Append(tried, "raw"), used |-> "raw",
          mem |-> st.mem, blob |-> st.blob,
          redis |-> [st.redis EXCEPT ![_compose_key(CHECKPOINT_NS, user_id, thread_id)] = Json(state)]]

\* a save that writes only where no checkpoint is stored yet
save_checkpointKeepFirst(st, mem, state, user_id, thread_id, f) ==
    LET id == <<user_id, thread_id>>
        key == _compose_key(CHECKPOINT_NS, user_id, thread_id)
    IN  IF f.raw
        THEN [ok |-> FALSE, tried |-> <<"raw">>, used |-> "none",
              mem |-> st.mem, blob |-> st.blob, redis |-> st.redis]
        ELSE [ok |-> TRUE, tried |-> <<"raw">>, used |-> "raw",
              mem |-> IF st.mem[id] = NoValue THEN [st.mem EXCEPT ![id] = state]
                                              ELSE st.mem,
              blob |-> st.blob,
              redis |-> IF st.redis[key] = NoValue
                        THEN [st.redis EXCEPT ![key] = Json(state)]
                        ELSE st.redis]

\* lines 74-94: the calls on memory; falls through to SaveRaw when one raises
\* out of the try block or when memory has none of the methods
save_checkpoint(st, mem, state, user_id, thread_id, f) ==
    LET done(tried, used, m, b) ==
            [ok |-> TRUE, tried |-> tried, used |-> used, mem |-> m, blob |-> b,
             redis |-> st.redis]
        name == BlobName(user_id, thread_id)
    IN  IF ~mem.present THEN SaveRaw(st, <<>>, state, user_id, thread_id, f)
        ELSE IF "save_checkpoint" \in mem.has
             THEN IF ~f.structured
                  THEN done(<<"structured">>, "structured",
                            [st.mem EXCEPT ![<<user_id, thread_id>>] = state], st.blob)
                  ELSE SaveRaw(st, <<"structured">>, state, user_id, thread_id, f)
        ELSE IF "save" \in mem.has
             THEN IF ~f.save3
                  THEN done(<<"save3">>, "save3", st.mem, [st.blob EXCEPT ![name] = state])
                  ELSE IF ~f.save1
                       THEN done(<<"save3", "save1">>, "save1", st.mem,
                                 [st.blob EXCEPT ![SingleArg] = state])
                       ELSE SaveRaw(st, <<"save3", "save1">>, state, user_id, thread_id, f)
        ELSE IF "write" \in mem.has
             THEN IF ~f.write
                  THEN done(<<"write">>, "write", st.mem, [st.blob EXCEPT ![name] = state])
                  ELSE SaveRaw(st, <<"write">>, state, user_id, thread_id, f)
        ELSE SaveRaw(st, <<>>, state, user_id, thread_id, f)

\* lines 123-130: the direct redis GET
LoadRaw(st, tried, user_id, thread_id, f) ==
    LET raw == st.redis[_compose_key(CHECKPOINT_NS, user_id, thread_id)]
    IN  IF f.raw THEN [result |-> EmptyState, tried |-> Append(tried, "raw"), used |-> "none"]
        ELSE IF raw = NoValue
             THEN [result |-> EmptyState, tried |-> Append(tried, "raw"), used |-> "raw"]
        ELSE [result |-> JsonLoads(<<raw>>).v, tried |-> Append(tried, "raw"), used |-> "raw"]

\* lines 110-120, then LoadRaw
load_checkpoint(st, mem, user_id, thread_id, f) ==
    IF mem.present /\ "load_checkpoint" \in mem.has
    THEN IF f.structured THEN LoadRaw(st, <<"structured">>, user_id, thread_id, f)
         ELSE LET data == st.mem[<<user_id, thread_id>>]
              IN  IF data # NoValue
                  THEN [result |-> data, tried |-> <<"structured">>, used |-> "structured"]
                  ELSE LoadRaw(st, <<"structured">>, user_id, thread_id, f)
    ELSE LoadRaw(st, <<>>, user_id, thread_id, f)

Store == [mem |-> memStore, blob |-> blobStore, redis |-> redisStore]

EmptyStore ==
    /\ memStore = [id \in Ids |-> NoValue]
    /\ blobStore = [n \in BlobNames |-> NoValue]
    /\ redisStore = [k \in RedisKeys |-> NoValue]

NoSave == [some |-> FALSE]
NoCall == [op |-> "none"]


---------------------------------------------------------------------------
(* agent_service.py: the stages *)

S1 == [url |-> "https://x", snippet |-> "Widgets up 5%"]
S2 == [url |-> "https://y", snippet |-> "Widgets down 2%"]

\* what web_search can return (it never raises: lines 137-156)
SearchOutcomes == {<<>>, <<S1, S2>>}

\* the module global llm is None, or llm.invoke raises, or it returns text
LlmOutcomes == {"none", "raises", "ok"}

DraftUnavailable == "LLM not available - sample draft generated by fallback."
DraftFailed == "LLM invocation failed - placeholder draft."
\* a generated text longer than the preview, and its first 2000 characters
LlmText == "generated text (2000 chars)(rest)"
LlmTextPreview == "generated text (2000 chars)"

search_node(state, results) == Put(state, "sources", results)

draft_node(state, llm) ==
    Put(state, "draft",
        CASE llm = "none" -> DraftUnavailable
          [] llm = "raises" -> DraftFailed
          [] OTHER -> LlmText)

\* text[:2000]
Preview(text) == IF text = LlmText THEN LlmTextPreview ELSE text

\* a report that cites the sources last to first
report_nodeReversed(state) ==
    LET sources == Get(state, "sources", <<>>)
        n == Len(sources)
        citations == [i \in 1..n |-> "- " \o sources[n + 1 - i].url]
    IN  Put(state, "report",
            <<"## Report", "", Get(state, "draft", ""), "", "### Sources">>
            \o (IF citations = <<>> THEN <<"">> ELSE citations))

\* the lines of the report text
report_node(state) ==
    LET sources == Get(state, "sources", <<>>)
        citations == [i \in 1..Len(sources) |-> "- " \o sources[i].url]
    IN  Put(state, "report",
            <<"## Report", "", Get(state, "draft", ""), "", "### Sources">>
            \o (IF citations = <<>> THEN <<"">> ELSE citations))

---------------------------------------------------------------------------
(* agent_service.py: the stream_run generator *)

Event(event_type, payload) == [event |-> event_type, payload |-> payload]

\* stream_run.sse_event: the text "data: <json>\n\n"
sse_event(event_type, payload) ==
    <<DataPrefix, Sp, Json(Event(event_type, payload)), Nl, Nl>>

NoGen == [pc |-> "none"]

\* the run_full calls of the model, none of them made yet
RunIds == {"r1", "r2"}
NoRun == [pc |-> "idle"]
NoRuns == [r \in RunIds |-> NoRun]

\* a save_checkpoint call made by a run: who, the key, the state, the result
SaveCall(run, user_id, thread_id, state, ok) ==
    [run |-> run, id |-> <<user_id, thread_id>>, state |-> state, ok |-> ok]

\* the log without the calls of an earlier run of the same name
WithoutRun(log, run) ==
    LET Other(call) == call.run # run
    IN  SelectSeq(log, Other)

NewGen(question, user_id, thread_id) ==
    [pc |-> "init", question |-> question, user_id |-> user_id,
     thread_id |-> thread_id, state |-> EmptyState, loaded |-> EmptyState,
     results |-> <<>>, llm |-> "none"]

\* the inputs of one resumption: collaborator results and failures
NoChoice == [results |-> <<>>, llm |-> "none", raises |-> FALSE]

\* the choices that matter at each position
ChoicesAt(pc) ==
    CASE pc = "status_search" ->
            [results : SearchOutcomes, llm : {"none"}, raises : BOOLEAN]
      [] pc = "status_drafts" ->
            [results : {<<>>}, llm : LlmOutcomes, raises : BOOLEAN]
      [] pc = "status_reports" ->
            [results : {<<>>}, llm : {"none"}, raises : BOOLEAN]
      [] OTHER -> {NoChoice}

\* a yield: the event, the text yielded for it, the generator and store after it
Yield(g, pc, event_type, payload, st, raised) ==
    [kind |-> "yield", ev |-> Event(event_type, payload),
     chunk |-> sse_event(event_type, payload),
     gen |-> [g EXCEPT !.pc = pc], st |-> st, raised |-> raised, saved |-> <<>>]

\* a stage whose except clause yields the error and goes on to the next stage
StageErrorGoesOn(g, node, st) ==
    Yield(g, "out_" \o node, "error", [node |-> node, error |-> "exc"], st, 1)

\* a stage whose except clause yields the error and runs the stage again
StageErrorRetries(g, node, st) ==
    Yield(g,
          CASE node = "search" -> "started"
            [] node = "drafts" -> "out_search"
            [] OTHER -> "out_drafts",
          "error", [node |-> node, error |-> "exc"], st, 1)

\* the except clause of a stage: the error event, then return
StageError(g, node, st) ==
    Yield(g, "error", "error", [node |-> node, error |-> "exc"], st, 1)

\* a stage that saves the state it was entered with
StageSavesStale(g, st, mem, f, c, node, next, state, payload) ==
    IF c.raises
    THEN StageError(g, node, st)
    ELSE LET r == save_checkpoint(st, mem, g.state, g.user_id, g.thread_id, f)
             y == Yield([g EXCEPT !.state = state], next, "node_output", payload,
                        [mem |-> r.mem, blob |-> r.blob, redis |-> r.redis], 0)
         IN  [y EXCEPT !.saved = <<SaveCall("stream", g.user_id, g.thread_id, g.state, r.ok)>>]

\* a stage that yields its node_output without saving a checkpoint
StageNoSave(g, st, mem, f, c, node, next, state, payload) ==
    IF c.raises
    THEN StageError(g, node, st)
    ELSE Yield([g EXCEPT !.state = state], next, "node_output", payload, st, 0)

\* one stage, lines 225-253: the stage, save_checkpoint, node_output; or error
\* state is the state the stage returns, payload the node_output made of it
Stage(g, st, mem, f, c, node, next, state, payload) ==
    IF c.raises
    THEN StageError(g, node, st)
    ELSE LET r == save_checkpoint(st, mem, state, g.user_id, g.thread_id, f)
             y == Yield([g EXCEPT !.state = state], next, "node_output", payload,
                        [mem |-> r.mem, blob |-> r.blob, redis |-> r.redis], 0)
         IN  [y EXCEPT !.saved = <<SaveCall("stream", g.user_id, g.thread_id, state, r.ok)>>]

\* next(generator): runs stream_run up to its next yield or its return
Resume(g, st, mem, f, c) ==
    CASE g.pc = "init" ->
            LET l == load_checkpoint(st, mem, g.user_id, g.thread_id, f)
                loaded == l.result
                state == Put(IF loaded # EmptyState THEN Update(EmptyState, loaded)
                                                     ELSE EmptyState,
                             "question", g.question)
            IN  Yield([g EXCEPT !.state = state, !.loaded = loaded], "started",
                      "started", [question |-> g.question, user_id |-> g.user_id,
                                  thread_id |-> g.thread_id],
                      st, 0)
      [] g.pc = "started" ->
            Yield(g, "status_search",
                  "status", [node |-> "search", message |-> "running"], st, 0)
      [] g.pc = "status_search" ->
            LET state == search_node(g.state, c.results)
                h == IF c.raises THEN g ELSE [g EXCEPT !.results = c.results]
            IN  Stage(h, st, mem, f, c, "search", "out_search", state,
                      [node |-> "search", sources |-> Get(state, "sources", <<>>)])
      [] g.pc = "out_search" ->
            Yield(g, "status_drafts",
                  "status", [node |-> "drafts", message |-> "running"], st, 0)
      [] g.pc = "status_drafts" ->
            LET state == draft_node(g.state, c.llm)
                h == IF c.raises THEN g ELSE [g EXCEPT !.llm = c.llm]
            IN  Stage(h, st, mem, f, c, "drafts", "out_drafts", state,
                      [node |-> "drafts", draft_preview |-> Preview(Get(state, "draft", ""))])
      [] g.pc = "out_drafts" ->
            Yield(g, "status_reports",
                  "status", [node |-> "reports", message |-> "running"], st, 0)
      [] g.pc = "status_reports" ->
            LET state == report_node(g.state)
            IN  Stage(g, st, mem, f, c, "reports", "out_reports", state,
                      [node |-> "reports", report |-> Get(state, "report", None)])
      [] g.pc = "out_reports" ->
            Yield(g, "finished", "finished", [report |-> Get(g.state, "report", None)], st, 0)
      [] OTHER ->
            [kind |-> "return", gen |-> [g EXCEPT !.pc = "closed"], st |-> st, raised |-> 0,
             saved |-> <<>>]


---------------------------------------------------------------------------
(* worker.py: the job loop *)

Unset == "(unset)"       \* the name event_channel is not bound yet

InfoStarted == [event |-> "info", payload |-> [message |-> "worker_started"]]
WorkerError == [event |-> "error", payload |-> [message |-> "exc"]]
EndOfStream == [event |-> "end_of_stream"]

EventOf(obj) == IF "event" \in DOMAIN obj THEN obj.event ELSE "(none)"

\* _publish_object calls: the object, and whether r.publish delivered it
\* (when it raises, the failure is logged and the object is lost)
Calls(objs, sent) == [i \in 1..Len(objs) |-> [obj |-> objs[i], sent |-> sent]]

IsSent(call) == call.sent

\* the channel after the calls: its last delivered message
Deliver(ch, channel, calls) ==
    LET sent == SelectSeq(calls, IsSent)
    IN  IF sent # <<>> THEN [ch EXCEPT ![channel] = Last(sent).obj] ELSE ch

Sent(channel, calls) ==
    LET sent == SelectSeq(calls, IsSent)
    IN  [i \in 1..Len(sent) |-> [channel |-> channel, obj |-> sent[i].obj]]

Publish(channel, calls) ==
    /\ chan' = Deliver(chan, channel, calls)
    /\ sentNow' = Sent(channel, calls)

Lost(sent) == IF sent THEN 0 ELSE 1

\* the jobs explored with the job loop: one conversation, one question
Jobs == [user_id : {"u1"}, thread_id : {"t1"}, question : {"q1"},
         channel : Channels \cup {None}]

CanReceive == driver = "none" /\ nreq > 0

NoOutcome == [by |-> "none", how |-> "none"]

\* the history of the previous job ends where the next message is taken
ForgetJob ==
    /\ saveLog' = WithoutRun(saveLog, "stream")
    /\ yielded' = <<>>
    /\ handled' = <<>>
    /\ jobLog' = <<>>
    /\ outcome' = NoOutcome

\* lines 148-154: not a message
SkipNonMessage ==
    /\ CanReceive
    /\ nreq' = nreq - 1
    /\ lastMsg' = "other"
    /\ sentNow' = <<>>
    /\ ForgetJob
    /\ UNCHANGED <<otherVars, storeVars, storeHist, faults, event_channel, driver, gen, chan>>

\* lines 196-204: the outer except, reached before event_channel is assigned
OuterExcept ==
    IF event_channel \notin {Unset, None}
    THEN Publish(event_channel, Calls(<<WorkerError>>, TRUE))
    ELSE Publish(event_channel, <<>>)

\* lines 156-166 raise: json.loads on malformed text, or job.get on a JSON
\* value that is no object
DecodeFails(kind) ==
    /\ CanReceive
    /\ nreq' = nreq - 1
    /\ lastMsg' = kind
    /\ OuterExcept
    /\ ForgetJob
    /\ UNCHANGED <<otherVars, storeVars, storeHist, faults, event_channel, driver, gen>>

\* lines 163-170: a job without a channel is skipped
JobWithoutChannel(job) ==
    /\ CanReceive
    /\ job.channel = None
    /\ nreq' = nreq - 1
    /\ lastMsg' = "nochannel"
    /\ event_channel' = job.channel
    /\ sentNow' = <<>>
    /\ ForgetJob
    /\ UNCHANGED <<otherVars, storeVars, storeHist, faults, driver, gen, chan>>

\* lines 163-180: worker_started is published and stream_run is called
StartJob(job, sent) ==
    /\ CanReceive
    /\ job.channel # None
    /\ faults + Lost(sent) <= MaxFaults
    /\ nreq' = nreq - 1
    /\ faults' = faults + Lost(sent)
    /\ lastMsg' = "job"
    /\ event_channel' = job.channel
    /\ Publish(job.channel, Calls(<<InfoStarted>>, sent))
    /\ jobLog' = Calls(<<InfoStarted>>, sent)
    /\ driver' = "worker"
    /\ gen' = NewGen(job.question, job.user_id, job.thread_id)
    /\ yielded' = <<>>
    /\ handled' = <<>>
    /\ outcome' = [by |-> "worker", how |-> "running"]
    /\ saveLog' = WithoutRun(saveLog, "stream")
    /\ UNCHANGED <<otherVars, storeVars, storeHist>>

\* the failures of the backend calls a run makes
RunFaults == IF down THEN AllFail ELSE NoFault

SetStore(st) ==
    /\ memStore' = st.mem
    /\ blobStore' = st.blob
    /\ redisStore' = st.redis

\* a relay that publishes nothing for an event whose handling raised
HandleEventSilent(chunk, h) ==
    IF h = "raised" THEN <<>>
    ELSE Calls(ProcessEvent(Text(chunk)), h # "lost")

\* lines 181-186: the calls made for one yielded chunk; h is how the handling
\* went: published, r.publish raised (logged), or the handling itself raised
HandleEvent(chunk, h) ==
    IF h = "raised" THEN Calls(<<WorkerError>>, TRUE)
    ELSE Calls(ProcessEvent(Text(chunk)), h # "lost")

\* a relay that publishes nothing when stream_run returns
EndCallsNone(sent) == <<>>

\* line 193
EndCalls(sent) == Calls(<<EndOfStream>>, sent)

\* a relay that leaves the channel open when stream_run raises
RaiseCallsNoEnd(sentError, sentEnd) == Calls(<<WorkerError>>, sentError)

\* a relay that closes the channel without the error when stream_run raises
RaiseCallsNoError(sentError, sentEnd) == Calls(<<EndOfStream>>, sentEnd)

\* lines 187-193
RaiseCalls(sentError, sentEnd) ==
    Calls(<<WorkerError>>, sentError) \o Calls(<<EndOfStream>>, sentEnd)

\* where stream_run is outside its try blocks: an exception raised there
\* leaves the generator (inside them it becomes an error event)
RaisePoints == {"init", "started", "out_search", "out_drafts", "out_reports"}

\* lines 180-186: stream_run yields an event and the worker handles it
RelayEvent(c, h) ==
    LET r == Resume(gen, Store, memory, RunFaults, c)
        calls == HandleEvent(r.chunk, h)
        cost == r.raised + (IF h = "ok" THEN 0 ELSE 1)
    IN  /\ driver = "worker"
        /\ r.kind = "yield"
        /\ faults + cost <= MaxFaults
        /\ faults' = faults + cost
        /\ gen' = r.gen
        /\ SetStore(r.st)
        /\ yielded' = Append(yielded, r.ev)
        /\ handled' = Append(handled, h)
        /\ Publish(event_channel, calls)
        /\ jobLog' = jobLog \o calls
        /\ saveLog' = saveLog \o r.saved
        /\ UNCHANGED <<otherVars, memory, down, storeHist, nreq, event_channel, driver, outcome, lastMsg>>

\* lines 180, 193: stream_run returns; end_of_stream is published
RelayEnd(sent) ==
    LET r == Resume(gen, Store, memory, RunFaults, NoChoice)
    IN  /\ driver = "worker"
        /\ r.kind = "return"
        /\ faults + Lost(sent) <= MaxFaults
        /\ faults' = faults + Lost(sent)
        /\ gen' = NoGen
        /\ driver' = "none"
        /\ outcome' = [by |-> "worker", how |-> "returned"]
        /\ Publish(event_channel, EndCalls(sent))
        /\ jobLog' = jobLog \o EndCalls(sent)
        /\ UNCHANGED saveLog
        /\ UNCHANGED <<otherVars, storeVars, storeHist, nreq, event_channel, yielded, handled, lastMsg>>

\* lines 187-193: stream_run raises; error and end_of_stream are published
RelayRaise(sentError, sentEnd) ==
    LET cost == 1 + Lost(sentError) + Lost(sentEnd)
    IN  /\ driver = "worker"
        /\ gen.pc \in RaisePoints
        /\ faults + cost <= MaxFaults
        /\ faults' = faults + cost
        /\ gen' = NoGen
        /\ driver' = "none"
        /\ outcome' = [by |-> "worker", how |-> "raised"]
        /\ Publish(event_channel, RaiseCalls(sentError, sentEnd))
        /\ jobLog' = jobLog \o RaiseCalls(sentError, sentEnd)
        /\ UNCHANGED saveLog
        /\ UNCHANGED <<otherVars, storeVars, storeHist, nreq, event_channel, yielded, handled, lastMsg>>

---------------------------------------------------------------------------
(* main.py: api_stream hands the generator to StreamingResponse *)

Requests == [user_id : {"u1"}, thread_id : {"t1"}, question : Questions]

\* lines 38-45
ApiStart(req) ==
    /\ CanReceive
    /\ nreq' = nreq - 1
    /\ driver' = "api"
    /\ gen' = NewGen(req.question, req.user_id, req.thread_id)
    /\ yielded' = <<>>
    /\ handled' = <<>>
    /\ jobLog' = <<>>
    /\ outcome' = [by |-> "api", how |-> "running"]
    /\ sentNow' = <<>>
    /\ saveLog' = WithoutRun(saveLog, "stream")
    /\ UNCHANGED <<otherVars, storeVars, storeHist, faults, event_channel, chan, lastMsg>>

\* the response sends the next chunk to the client
ApiChunk(c) ==
    LET r == Resume(gen, Store, memory, RunFaults, c)
    IN  /\ driver = "api"
        /\ r.kind = "yield"
        /\ faults + r.raised <= MaxFaults
        /\ faults' = faults + r.raised
        /\ gen' = r.gen
        /\ SetStore(r.st)
        /\ yielded' = Append(yielded, r.ev)
        /\ saveLog' = saveLog \o r.saved
        /\ UNCHANGED <<otherVars, memory, down, storeHist, nreq, event_channel, driver, outcome,
                       handled, jobLog, chan, sentNow, lastMsg>>

\* the generator returns: the response is complete
ApiEnd ==
    LET r == Resume(gen, Store, memory, RunFaults, NoChoice)
    IN  /\ driver = "api"
        /\ r.kind = "return"
        /\ gen' = NoGen
        /\ driver' = "none"
        /\ outcome' = [by |-> "api", how |-> "returned"]
        /\ UNCHANGED saveLog
        /\ UNCHANGED <<otherVars, storeVars, storeHist, nreq, faults, event_channel, yielded, handled,
                       jobLog, chan, sentNow, lastMsg>>

\* the generator raises: the response is cut
ApiRaise ==
    /\ driver = "api"
    /\ gen.pc \in RaisePoints
    /\ faults + 1 <= MaxFaults
    /\ faults' = faults + 1
    /\ gen' = NoGen
    /\ driver' = "none"
    /\ outcome' = [by |-> "api", how |-> "raised"]
    /\ UNCHANGED saveLog
    /\ UNCHANGED <<otherVars, storeVars, storeHist, nreq, event_channel, yielded, handled,
                   jobLog, chan, sentNow, lastMsg>>

---------------------------------------------------------------------------
(* main.py api_run and agent_service.py run_full: the blocking run.  Its
   steps are its calls on the checkpoint store: the load, then each stage
   with the save that follows it; the work between two calls is local. *)

StructuredMemory == [present |-> TRUE, has |-> {"save_checkpoint", "load_checkpoint"}]

RunStages == {"search", "draft", "report"}

\* the choices that matter at each stage of run_full
RunChoicesAt(pc) ==
    CASE pc = "search" -> [results : SearchOutcomes, llm : {"none"}]
      [] pc = "draft" -> [results : {<<>>}, llm : LlmOutcomes]
      [] OTHER -> {[results |-> <<>>, llm |-> "none"]}

\* lines 187-193: state = AgentState(); loaded = load_checkpoint(...);
\* if loaded: state.update(loaded); state["question"] = question
RunStart(r, req) ==
    LET l == load_checkpoint(Store, memory, req.user_id, req.thread_id, RunFaults)
        loaded == l.result
        state == Put(IF loaded # EmptyState THEN Update(EmptyState, loaded)
                                             ELSE EmptyState,
                     "question", req.question)
    IN  /\ nreq > 0
        /\ runs[r].pc = "idle"
        /\ nreq' = nreq - 1
        /\ runs' = [runs EXCEPT ![r] =
                        [pc |-> "search", question |-> req.question,
                         user_id |-> req.user_id, thread_id |-> req.thread_id,
                         loaded |-> loaded, state |-> state,
                         results |-> <<>>, llm |-> "none"]]
        /\ saveLog' = WithoutRun(saveLog, r)
        /\ UNCHANGED <<storeVars, storeHist, faults, workerVars, raw_text, published, clientVars>>

\* the state after the stage at pc (lines 196, 199, 202)
RunNode(run, c) ==
    CASE run.pc = "search" -> search_node(run.state, c.results)
      [] run.pc = "draft" -> draft_node(run.state, c.llm)
      [] OTHER -> report_node(run.state)

RunAfter(pc) ==
    CASE pc = "search" -> "draft"
      [] pc = "draft" -> "report"
      [] OTHER -> "done"

\* lines 196-205: a stage and the save_checkpoint call after it; after the
\* report stage's save the run returns dict(state)
RunStage(r, c) ==
    LET run == runs[r]
        state == RunNode(run, c)
        s == save_checkpoint(Store, memory, state, run.user_id, run.thread_id, RunFaults)
    IN  /\ run.pc \in RunStages
        /\ SetStore([mem |-> s.mem, blob |-> s.blob, redis |-> s.redis])
        /\ saveLog' = Append(saveLog, SaveCall(r, run.user_id, run.thread_id, state, s.ok))
        /\ runs' = [runs EXCEPT ![r] =
                        [run EXCEPT !.pc = RunAfter(run.pc), !.state = state,
                                    !.results = IF run.pc = "search" THEN c.results ELSE @,
                                    !.llm = IF run.pc = "draft" THEN c.llm ELSE @]]
        /\ UNCHANGED <<memory, down, storeHist, nreq, faults, workerVars, raw_text, published, clientVars>>

\* a stage raises: run_full raises and api_run answers with status 500
\* (main.py lines 35-36)
RunRaise(r) ==
    /\ runs[r].pc \in RunStages
    /\ faults + 1 <= MaxFaults
    /\ faults' = faults + 1
    /\ runs' = [runs EXCEPT ![r].pc = "raised"]
    /\ UNCHANGED <<storeVars, storeHist, nreq, workerVars, saveLog, raw_text, published, clientVars>>

\* a checkpoint another writer left in the store, with a key no stage writes
ForeignState == [question |-> "q0", note |-> "n0"]

\* the store with that checkpoint under the key of (u1, t1)
ForeignStore ==
    /\ memStore = [id \in Ids |-> IF id = <<"u1", "t1">> THEN ForeignState ELSE NoValue]
    /\ blobStore = [n \in BlobNames |-> NoValue]
    /\ redisStore = [k \in RedisKeys |->
                        IF k = _compose_key(CHECKPOINT_NS, "u1", "t1")
                        THEN Json(ForeignState) ELSE NoValue]

---------------------------------------------------------------------------
(* The specification of the worker and the streaming endpoint *)

\* the shapes of memory explored with the job loop
RunEnvironments == {<<NoMemory, FALSE>>, <<StructuredMemory, FALSE>>, <<StructuredMemory, TRUE>>}

Init ==
    /\ \E env \in RunEnvironments : memory = env[1] /\ down = env[2]
    /\ EmptyStore
    /\ lastSave = [id \in Ids |-> NoSave]
    /\ lastCall = NoCall
    /\ nreq = MaxReq
    /\ faults = 0
    /\ event_channel = Unset
    /\ driver = "none"
    /\ gen = NoGen
    /\ yielded = <<>>
    /\ outcome = NoOutcome
    /\ handled = <<>>
    /\ jobLog = <<>>
    /\ chan = [c \in Channels |-> NoValue]
    /\ sentNow = <<>>
    /\ lastMsg = "none"
    /\ saveLog = <<>>
    /\ runs = NoRuns
    /\ ClientIdle
    /\ raw_text = <<>>
    /\ published = <<>>

Next ==
    \/ SkipNonMessage
    \/ \E kind \in {"malformed", "nondict"} : DecodeFails(kind)
    \/ \E job \in Jobs : JobWithoutChannel(job)
    \/ \E job \in Jobs, sent \in BOOLEAN : StartJob(job, sent)
    \/ \E c \in ChoicesAt(gen.pc), h \in {"ok", "lost", "raised"} : RelayEvent(c, h)
    \/ \E sent \in BOOLEAN : RelayEnd(sent)
    \/ \E sentError, sentEnd \in BOOLEAN : RelayRaise(sentError, sentEnd)

Spec == Init /\ [][Next]_vars

\* one streaming run, relayed by the worker or served by api_stream; the
\* worker loop and the response iterate the generator until it ends
ApiNext ==
    \/ \E req \in Requests : ApiStart(req)
    \/ \E c \in ChoicesAt(gen.pc) : ApiChunk(c)
    \/ ApiEnd
    \/ ApiRaise

StreamInit ==
    /\ \E env \in RunEnvironments : memory = env[1] /\ down = env[2]
    /\ EmptyStore
    /\ lastSave = [id \in Ids |-> NoSave]
    /\ lastCall = NoCall
    /\ nreq = 1
    /\ faults = 0
    /\ event_channel = Unset
    /\ driver = "none"
    /\ gen = NoGen
    /\ yielded = <<>>
    /\ outcome = NoOutcome
    /\ handled = <<>>
    /\ jobLog = <<>>
    /\ chan = [c \in Channels |-> NoValue]
    /\ sentNow = <<>>
    /\ lastMsg = "none"
    /\ saveLog = <<>>
    /\ runs = NoRuns
    /\ ClientIdle
    /\ raw_text = <<>>
    /\ published = <<>>

StreamNext == Next \/ ApiNext

\* the for loop of the worker and the response take the generator's next
\* event, or its end, as long as there is one
Iterate ==
    \/ \E c \in ChoicesAt(gen.pc), h \in {"ok", "lost", "raised"} : RelayEvent(c, h)
    \/ \E sent \in BOOLEAN : RelayEnd(sent)
    \/ \E c \in ChoicesAt(gen.pc) : ApiChunk(c)
    \/ ApiEnd

StreamSpec == StreamInit /\ [][StreamNext]_vars /\ WF_vars(Iterate)

\* the blocking endpoint and the streaming endpoint, serving up to MaxReq
\* requests for one conversation
BlockingEnvironments == {NoMemory, StructuredMemory} \X BOOLEAN

RunInit ==
    /\ \E env \in BlockingEnvironments : memory = env[1] /\ down = env[2]
    /\ EmptyStore \/ ForeignStore
    /\ lastSave = [id \in Ids |-> NoSave]
    /\ lastCall = NoCall
    /\ nreq = MaxReq
    /\ faults = 0
    /\ event_channel = Unset
    /\ driver = "none"
    /\ gen = NoGen
    /\ yielded = <<>>
    /\ outcome = NoOutcome
    /\ handled = <<>>
    /\ jobLog = <<>>
    /\ chan = [c \in Channels |-> NoValue]
    /\ sentNow = <<>>
    /\ lastMsg = "none"
    /\ saveLog = <<>>
    /\ runs = NoRuns
    /\ ClientIdle
    /\ raw_text = <<>>
    /\ published = <<>>

\* the blocking requests: two questions about one conversation
RunRequest ==
    [r \in RunIds |-> [user_id |-> "u1", thread_id |-> "t1",
                       question |-> IF r = "r1" THEN "q1" ELSE "q2"]]

\* no blocking request was made, no streaming request was made
NoneBlocking == runs = NoRuns
NoneStreaming == outcome = NoOutcome

\* the requests of one behaviour are all blocking, and their runs overlap,
\* or all streaming, one after the other
RunNext ==
    \/ \E r \in RunIds : NoneStreaming /\ RunStart(r, RunRequest[r])
    \/ \E r \in RunIds : \E c \in RunChoicesAt(runs[r].pc) : RunStage(r, c)
    \/ \E r \in RunIds : RunRaise(r)
    \/ \E req \in Requests : NoneBlocking /\ ApiStart(req)
    \/ \E c \in ChoicesAt(gen.pc) : ApiChunk(c)
    \/ ApiEnd
    \/ ApiRaise

RunSpec == RunInit /\ [][RunNext]_vars


\* the two modes on the same inputs: a blocking run, then a streaming run,
\* the checkpoint of the conversation being replaced in between by another
\* writer of the store (redis is shared), possibly by what the first run found

\* what the store can hold for (u1, t1) before a run: nothing, or ForeignState
Replacements == {NoValue, ForeignState}

\* another client of the store sets or deletes the checkpoint of (u1, t1)
StoreReplaced(cp) ==
    /\ memStore' = [memStore EXCEPT ![<<"u1", "t1">>] = cp]
    /\ redisStore' = [redisStore EXCEPT ![_compose_key(CHECKPOINT_NS, "u1", "t1")] =
                          IF cp = NoValue THEN NoValue ELSE Json(cp)]
    /\ UNCHANGED <<memory, down, blobStore, storeHist, nreq, faults, workerVars,
                   saveLog, otherVars>>

BlockingOver == runs["r1"].pc \in {"done", "raised"}

ModeNext ==
    \/ \E req \in Requests : NoneBlocking /\ NoneStreaming /\ RunStart("r1", req)
    \/ \E c \in RunChoicesAt(runs["r1"].pc) : RunStage("r1", c)
    \/ RunRaise("r1")
    \/ \E cp \in Replacements : BlockingOver /\ NoneStreaming /\ StoreReplaced(cp)
    \/ \E req \in Requests : BlockingOver /\ ApiStart(req)
    \/ \E c \in ChoicesAt(gen.pc) : ApiChunk(c)
    \/ ApiEnd
    \/ ApiRaise

ModeSpec == RunInit /\ [][ModeNext]_vars

---------------------------------------------------------------------------
(* Properties of the relay worker and of the streaming run *)

CountEvents(events, event_type) ==
    Cardinality({i \in 1..Len(events) : EventOf(events[i]) = event_type})

CountCalls(calls, obj) ==
    Cardinality({i \in 1..Len(calls) : calls[i].obj = obj})

Relaying == outcome = [by |-> "worker", how |-> "running"]
JobOver == outcome.by = "worker" /\ outcome.how \in {"returned", "raised"}
RunOver == outcome.by \in {"worker", "api"} /\ outcome.how \in {"returned", "raised"}

\* the call the worker makes for the i-th executor event
RelayedCall(i) ==
    IF handled[i] = "raised" THEN [obj |-> WorkerError, sent |-> TRUE]
    ELSE [obj |-> yielded[i], sent |-> handled[i] = "ok"]

\* C1: for every job started with a reply channel, the worker publishes
\* end_of_stream exactly once and as the last message of the job, whether the
\* executor returned or raised and whether or not events failed on the way;
\* nothing of it is published while the job is still being relayed, and the
\* message is the last one on the channel when its publish went through
C1_EndOfStreamOnceAndLast ==
    /\ Relaying => CountCalls(jobLog, EndOfStream) = 0
    /\ JobOver =>
         /\ CountCalls(jobLog, EndOfStream) = 1
         /\ Last(jobLog).obj = EndOfStream
         /\ Last(jobLog).sent => chan[event_channel] = EndOfStream

\* a job cut by the executor raising after two events were relayed
C1_RaisedPartway ==
    /\ JobOver
    /\ outcome.how = "raised"
    /\ Len(yielded) >= 2
    /\ Last(jobLog).sent

NodeOutputs == CountEvents(yielded, "node_output")

TerminalObserved ==
    IF outcome.by = "worker" THEN CountCalls(jobLog, EndOfStream) >= 1
    ELSE CountEvents(yielded, "finished") >= 1

C3_NothingAfterEndOfStream ==
    [][\A c \in Channels :
         (chan[c] = EndOfStream /\ ~(lastMsg' = "job" /\ event_channel' = c))
            => \A i \in DOMAIN sentNow' : sentNow'[i].channel # c]_vars

StageErrors == CountEvents(yielded, "error")

\* C4 as stated: a streaming run that is over emitted started exactly once and
\* first, one terminal event last (finished, or the end_of_stream the relay
\* adds), and as many status events as stages it entered
C4_StartedFirstTerminalLast ==
    RunOver =>
        /\ CountEvents(yielded, "started") = 1
        /\ EventOf(yielded[1]) = "started"
        /\ IF outcome.by = "worker"
           THEN CountCalls(jobLog, EndOfStream) = 1 /\ Last(jobLog).obj = EndOfStream
           ELSE CountEvents(yielded, "finished") = 1 /\ EventOf(Last(yielded)) = "finished"
        /\ CountEvents(yielded, "status") = NodeOutputs + StageErrors

\* C4: a streaming run emits started at most once and before anything else,
\* and exactly once unless the executor raised before its first event; it
\* emits finished at most once, as its last event and only after three stage
\* outputs; a run whose generator returned ended with finished or with the
\* error of the stage that raised; a run that is over emitted as many status
\* events as stages it entered; the relay adds one end_of_stream, last
C4_StartedFirstFinishedOnlyOnSuccess ==
    outcome.by \in {"worker", "api"} =>
        /\ CountEvents(yielded, "started") <= 1
        /\ yielded # <<>> => EventOf(yielded[1]) = "started"
        /\ CountEvents(yielded, "finished") <= 1
        /\ CountEvents(yielded, "finished") = 1
              => EventOf(Last(yielded)) = "finished" /\ NodeOutputs = 3
        /\ RunOver =>
              /\ yielded = <<>> => outcome.how = "raised"
              /\ CountEvents(yielded, "status") = NodeOutputs + StageErrors
              /\ StageErrors <= 1
        /\ (RunOver /\ outcome.how = "returned") =>
              /\ EventOf(Last(yielded)) \in {"finished", "error"}
              /\ EventOf(Last(yielded)) = "finished" <=> NodeOutputs = 3
        /\ JobOver => CountCalls(jobLog, EndOfStream) = 1 /\ Last(jobLog).obj = EndOfStream

\* a relayed run that ended on the error of its second stage
C4_RelayedStageError ==
    /\ outcome = [by |-> "worker", how |-> "returned"]
    /\ EventOf(Last(yielded)) = "error"
    /\ CountEvents(yielded, "status") = 2
    /\ NodeOutputs = 1

\* the messages of the job that reached the channel before end_of_stream
Delivered ==
    LET before == IF JobOver THEN SubSeq(jobLog, 1, Len(jobLog) - 1) ELSE jobLog
        sent == SelectSeq(before, IsSent)
    IN  [i \in 1..Len(sent) |-> sent[i].obj]

\* C5 as stated: what a finished job published before end_of_stream is
\* worker_started followed by the executor's events, one for one, in order
C5_ChannelIsInfoThenEvents ==
    JobOver => Delivered = <<InfoStarted>> \o yielded

\* C5: the calls the worker makes for a job are worker_started, then one per
\* executor event in the order the executor yielded them, each carrying the
\* normalized event (the error event where the handling raised), then the
\* closing calls: end_of_stream, preceded by one error event when the
\* executor raised; when the executor returned and no handling and no
\* publish raised, the channel holds worker_started followed by the
\* executor's events, one for one, in order
C5_InfoThenEventsInOrder ==
    outcome.by = "worker" =>
        LET n == Len(yielded)
            closing == IF outcome.how = "returned" THEN 1
                       ELSE IF outcome.how = "raised" THEN 2 ELSE 0
        IN  /\ Len(handled) = n
            /\ Len(jobLog) = 1 + n + closing
            /\ jobLog[1].obj = InfoStarted
            /\ \A i \in 1..n : jobLog[1 + i] = RelayedCall(i)
            /\ (/\ outcome.how = "returned"
                /\ \A i \in 1..Len(jobLog) : jobLog[i].sent
                /\ \A i \in 1..n : handled[i] = "ok")
                  => Delivered = <<InfoStarted>> \o yielded

\* a job relayed from started to finished with every event published
C5_WholeRunRelayed ==
    /\ outcome = [by |-> "worker", how |-> "returned"]
    /\ Len(yielded) = 8
    /\ EventOf(Last(yielded)) = "finished"
    /\ \A i \in 1..Len(handled) : handled[i] = "ok"

\* C6: when the executor raises during a job, the worker makes exactly one
\* call with the error event after the calls of the events already relayed,
\* which stay as they were, and then the call with end_of_stream
C6_RaiseGivesErrorThenEnd ==
    (JobOver /\ outcome.how = "raised") =>
        LET n == Len(yielded)
        IN  /\ Len(jobLog) = n + 3
            /\ \A i \in 1..n : jobLog[1 + i] = RelayedCall(i)
            /\ jobLog[n + 2].obj = WorkerError
            /\ jobLog[n + 3].obj = EndOfStream
            /\ (jobLog[n + 2].sent /\ ~jobLog[n + 3].sent)
                  => chan[event_channel] = WorkerError

\* the executor raised after three events were relayed and both calls went through
C6_RaisedAfterThree ==
    /\ JobOver
    /\ outcome.how = "raised"
    /\ Len(yielded) = 3
    /\ jobLog[5].sent
    /\ jobLog[6].sent

\* C7 as stated: a message that cannot be decoded as a job, or that names no
\* channel, publishes nothing and starts no executor
C7_BadMessagePublishesNothing ==
    lastMsg \in {"malformed", "nondict", "nochannel"}
        => sentNow = <<>> /\ driver = "none" /\ gen = NoGen

\* C8 as stated: an executor event whose normalization or publish failed has
\* an error event published in its place
C8_FailureBecomesErrorEvent ==
    outcome.by = "worker" =>
        \A i \in 1..Len(handled) :
            handled[i] \in {"lost", "raised"}
                => jobLog[1 + i] = [obj |-> WorkerError, sent |-> TRUE]

\* C8: an executor event whose handling raised has the error event published
\* in its place; one whose publish raised is lost with nothing published in
\* its place; either way the worker relays the events that follow, up to the
\* end of the generator
C8_HandlingErrorInPlacePublishLost ==
    outcome.by = "worker" =>
        /\ Len(handled) = Len(yielded)
        /\ Len(jobLog) >= 1 + Len(yielded)
        /\ \A i \in 1..Len(handled) :
              /\ handled[i] = "raised" => jobLog[1 + i] = [obj |-> WorkerError, sent |-> TRUE]
              /\ handled[i] = "lost" => jobLog[1 + i] = [obj |-> yielded[i], sent |-> FALSE]
        /\ outcome.how = "returned"
              => yielded # <<>> /\ EventOf(Last(yielded)) \in {"finished", "error"}
        /\ Relaying => driver = "worker" /\ gen.pc \notin {"none", "closed"}

\* an event failed and the events after it were relayed to the end of the run
C8_RelayedPastFailure ==
    /\ outcome = [by |-> "worker", how |-> "returned"]
    /\ EventOf(Last(yielded)) = "finished"
    /\ \E i \in 1..Len(handled) : i < Len(handled) /\ handled[i] # "ok"


---------------------------------------------------------------------------
(* The specification of the checkpoint store: save_checkpoint and           *)
(* load_checkpoint called in any order, any backend call raising or not     *)

Q1State == Put(EmptyState, "question", "q1")
Q2State == Put(Put(EmptyState, "question", "q2"), "sources", <<S1>>)
StoreStates == {Q1State, Q2State}

\* the failures that can show with this shape of memory
SaveFaults(mem) ==
    {f \in CallFaults :
        /\ f.structured => mem.present /\ "save_checkpoint" \in mem.has
        /\ f.save3 => mem.present /\ "save" \in mem.has
        /\ f.save1 => f.save3
        /\ f.write => mem.present /\ "write" \in mem.has}

LoadFaults(mem) ==
    {f \in CallFaults :
        /\ f.structured => mem.present /\ "load_checkpoint" \in mem.has
        /\ ~f.save3 /\ ~f.save1 /\ ~f.write}

SaveOp(id, state, f) ==
    LET r == save_checkpoint(Store, memory, state, id[1], id[2], f)
    IN  /\ nreq > 0
        /\ nreq' = nreq - 1
        /\ SetStore([mem |-> r.mem, blob |-> r.blob, redis |-> r.redis])
        /\ lastSave' = [lastSave EXCEPT ![id] = [some |-> TRUE, state |-> state, f |-> f,
                                                 ok |-> r.ok]]
        /\ lastCall' = [op |-> "save", id |-> id, f |-> f, tried |-> r.tried,
                        used |-> r.used, ok |-> r.ok]
        /\ UNCHANGED <<memory, down, faults, workerVars, saveLog, otherVars>>

LoadOp(id, f) ==
    LET r == load_checkpoint(Store, memory, id[1], id[2], f)
    IN  /\ nreq > 0
        /\ nreq' = nreq - 1
        /\ lastCall' = [op |-> "load", id |-> id, f |-> f, tried |-> r.tried,
                        used |-> r.used, result |-> r.result,
                        follows |-> lastCall.op = "save" /\ lastCall.id = id]
        /\ UNCHANGED <<storeVars, lastSave, faults, workerVars, saveLog, otherVars>>

StoreInit ==
    /\ memory \in MemoryShapes
    /\ down = FALSE
    /\ EmptyStore
    /\ lastSave = [id \in Ids |-> NoSave]
    /\ lastCall = NoCall
    /\ nreq = MaxStoreOps
    /\ faults = 0
    /\ event_channel = Unset
    /\ driver = "none"
    /\ gen = NoGen
    /\ yielded = <<>>
    /\ outcome = NoOutcome
    /\ handled = <<>>
    /\ jobLog = <<>>
    /\ chan = [c \in Channels |-> NoValue]
    /\ sentNow = <<>>
    /\ lastMsg = "none"
    /\ saveLog = <<>>
    /\ runs = NoRuns
    /\ ClientIdle
    /\ raw_text = <<>>
    /\ published = <<>>

StoreNext ==
    \/ \E id \in Ids, state \in StoreStates, f \in SaveFaults(memory) : SaveOp(id, state, f)
    \/ \E id \in Ids, f \in LoadFaults(memory) : LoadOp(id, f)

StoreSpec == StoreInit /\ [][StoreNext]_vars


---------------------------------------------------------------------------
(* Properties of the checkpoint store *)

\* the backends memory offers a save, in the order of their priority
SaveBackends(mem) ==
    (IF mem.present /\ "save_checkpoint" \in mem.has THEN <<"structured">> ELSE <<>>)
    \o (IF mem.present /\ "save" \in mem.has THEN <<"save3", "save1">>
        ELSE IF mem.present /\ "write" \in mem.has THEN <<"write">> ELSE <<>>)
    \o <<"raw">>

\* the first backend of the list whose call does not raise, 0 when all raise
FirstCompleting(backends, f) ==
    IF \E i \in 1..Len(backends) : ~f[backends[i]]
    THEN CHOOSE i \in 1..Len(backends) :
             ~f[backends[i]] /\ \A m \in 1..(i - 1) : f[backends[m]]
    ELSE 0

\* C9 as stated, where no backend call raises at all: a load that follows a
\* save of the same key returns the state that was saved
C9_LoadReturnsWhatWasSaved ==
    (/\ lastCall.op = "load"
     /\ lastCall.follows
     /\ lastCall.f = NoFault
     /\ lastSave[lastCall.id].f = NoFault)
        => lastCall.result = lastSave[lastCall.id].state

\* C10 as stated, for saves: the backends are tried in priority order, each
\* when all before it raised, up to the first that completes; the save
\* returns true exactly when one completed
C10_SaveTriesBackendsInOrder ==
    lastCall.op = "save" =>
        LET backends == SaveBackends(memory)
            k == FirstCompleting(backends, lastCall.f)
        IN  /\ lastCall.tried = (IF k = 0 THEN backends ELSE SubSeq(backends, 1, k))
            /\ lastCall.ok = (k # 0)
            /\ k # 0 => lastCall.used = backends[k]

\* C12 as stated: a load of a conversation that no save was ever called for
\* returns the empty mapping, whatever backend calls raise
C12_LoadOfUnsavedIsEmpty ==
    (lastCall.op = "load" /\ ~lastSave[lastCall.id].some)
        => lastCall.result = EmptyState

\* what a load of the conversation returns when no backend call raises
LoadedFor(id) == load_checkpoint(Store, memory, id[1], id[2], NoFault).result

\* C22 as stated: a save for one (user_id, thread_id) pair never changes
\* what a load returns for a different pair, whatever the id strings are,
\* those holding the ':' of the raw key included
C22_SaveLeavesOtherConversations ==
    [][lastCall'.op = "save" =>
          \A other \in Ids \ {lastCall'.id} : LoadedFor(other)' = LoadedFor(other)]_vars

---------------------------------------------------------------------------
(* Properties of the messages *)

EventTypes == {"started", "status", "node_output", "error", "finished", "info",
               "end_of_stream"}

\* an object with exactly an event type of the list and a payload mapping
IsWireEvent(obj) ==
    /\ DOMAIN obj = {"event", "payload"}
    /\ obj.event \in EventTypes
    /\ DOMAIN obj.payload \subseteq STRING

\* C17 as stated: every event the executor yields and every object the
\* worker publishes for a job has an event type of the list and a payload
\* that is a mapping
C17_EveryMessageHasTypeAndPayload ==
    /\ \A i \in 1..Len(yielded) : IsWireEvent(yielded[i])
    /\ \A i \in 1..Len(jobLog) : IsWireEvent(jobLog[i].obj)

---------------------------------------------------------------------------
(* Properties of the runs, blocking and streaming *)

\* the save_checkpoint calls of one run, in order
SavesOf(run) ==
    LET ByRun(call) == call.run = run
    IN  SelectSeq(saveLog, ByRun)

StateKeys == {"question", "sources", "draft", "report"}

\* the blocking runs that raised out of run_full
RaisedRuns == {r \in RunIds : runs[r].pc = "raised"}

\* the streaming run returned after its last event
StreamReturned == outcome = [by |-> "api", how |-> "returned"]

\* C11: while every checkpoint backend is unreachable, every save call
\* returns false, nothing raises and no error event is yielded unless a stage
\* raised, a blocking run that returned made its three saves and returns a
\* state with question, sources, draft and report, and a streaming run that
\* returned without a stage error yielded three node_output events and
\* finished, its last state holding the four keys
C11_RunsCompleteWithoutBackends ==
    down =>
        /\ \A i \in 1..Len(saveLog) : ~saveLog[i].ok
        /\ Cardinality(RaisedRuns) + StageErrors <= faults
        /\ \A r \in RunIds :
              runs[r].pc = "done" =>
                  /\ Len(SavesOf(r)) = 3
                  /\ StateKeys \subseteq DOMAIN runs[r].state
        /\ (StreamReturned /\ StageErrors = 0) =>
              /\ NodeOutputs = 3
              /\ EventOf(Last(yielded)) = "finished"
              /\ Len(SavesOf("stream")) = 3
              /\ StateKeys \subseteq DOMAIN Last(saveLog).state

\* both blocking runs returned while every backend was unreachable
C11_BothReturnedWhileDown ==
    /\ down
    /\ \A r \in RunIds : runs[r].pc = "done"
    /\ Len(saveLog) = 6

\* the state carries the request's question and the loaded values of the
\* keys no stage writes
KeepsLoaded(state, question, loaded) ==
    /\ state["question"] = question
    /\ \A k \in DOMAIN loaded \ StateKeys :
          k \in DOMAIN state /\ state[k] = loaded[k]

\* C13: in every checkpoint a run saves and in the state a blocking run
\* returns, question is the question of the run's request, and every key of
\* the loaded checkpoint other than question, sources, draft and report has
\* its loaded value
C13_QuestionOverwrittenOthersKept ==
    /\ \A r \in RunIds :
          runs[r].pc # "idle" =>
              /\ KeepsLoaded(runs[r].state, runs[r].question, runs[r].loaded)
              /\ \A i \in 1..Len(SavesOf(r)) :
                    KeepsLoaded(SavesOf(r)[i].state, runs[r].question, runs[r].loaded)
    /\ driver = "api" =>
          \A i \in 1..Len(SavesOf("stream")) :
              KeepsLoaded(SavesOf("stream")[i].state, gen.question, gen.loaded)

\* the second blocking run loaded the checkpoint of the first, which asked
\* another question and had loaded a key no stage writes, and returned
C13_ReturnedOverLoaded ==
    /\ runs["r2"].pc = "done"
    /\ "note" \in DOMAIN runs["r2"].loaded
    /\ "report" \in DOMAIN runs["r2"].loaded
    /\ runs["r2"].loaded["question"] = "q1"
    /\ runs["r2"].state["question"] = "q2"

NonEmptyLine(line) == line # ""

\* the report is the five lines '## Report', blank, the draft, blank,
\* '### Sources', and after them one line '- <url>' per source, in order,
\* and no other text
WellFormedReport(state) ==
    LET report == state["report"]
        sources == state["sources"]
        rest == SubSeq(report, 6, Len(report))
        cited == SelectSeq(rest, NonEmptyLine)
    IN  /\ Len(report) >= 5
        /\ SubSeq(report, 1, 5) = <<"## Report", "", state["draft"], "", "### Sources">>
        /\ Len(cited) = Len(sources)
        /\ \A i \in 1..Len(sources) : cited[i] = "- " \o sources[i].url
        /\ Len(rest) = (IF sources = <<>> THEN 1 ELSE Len(sources))

\* C14: the report a run returns, and the report its report-stage save
\* stores, is the heading, a blank line, the draft, a blank line, the sources
\* heading and then exactly one line '- <url>' per source of the search, in
\* source order; the draft is the fixed fallback text when no generation
\* service is available
C14_ReportIsDraftThenCitations ==
    /\ \A r \in RunIds :
          /\ runs[r].pc = "done" =>
                /\ WellFormedReport(runs[r].state)
                /\ runs[r].state["sources"] = runs[r].results
          /\ (runs[r].pc \in {"report", "done"} /\ runs[r].llm = "none") =>
                runs[r].state["draft"] = DraftUnavailable
    /\ \A run \in RunIds \cup {"stream"} :
          Len(SavesOf(run)) = 3 => WellFormedReport(SavesOf(run)[3].state)

\* a blocking run returned a report over two sources and the fallback draft
C14_FallbackDraftTwoSources ==
    /\ runs["r1"].pc = "done"
    /\ runs["r1"].llm = "none"
    /\ Len(runs["r1"].results) = 2
    /\ Len(runs["r1"].state["report"]) = 7

\* the stages of stream_run by the names its events give them
StreamStages == <<"search", "drafts", "reports">>

NodeOf(ev) == IF "node" \in DOMAIN ev.payload THEN ev.payload.node ELSE "(none)"

\* C18: the events of a streaming run are started, then for the stages
\* search, drafts, reports in this order a status event followed by exactly
\* one node_output or error event of that stage, whatever the loaded
\* checkpoint holds; an error event is the last event; a run that returned
\* yielded finished exactly when it yielded three node_output events
C18_StagesInOrderOnceEach ==
    /\ Len(yielded) <= 8
    /\ \A i \in 1..Len(yielded) :
          /\ i = 1 => EventOf(yielded[i]) = "started"
          /\ i \in {2, 4, 6} =>
                /\ EventOf(yielded[i]) = "status"
                /\ NodeOf(yielded[i]) = StreamStages[i \div 2]
          /\ i \in {3, 5, 7} =>
                /\ EventOf(yielded[i]) \in {"node_output", "error"}
                /\ NodeOf(yielded[i]) = StreamStages[i \div 2]
          /\ i = 8 => EventOf(yielded[i]) = "finished"
          /\ EventOf(yielded[i]) = "error" => i = Len(yielded)
    /\ StreamReturned => (CountEvents(yielded, "finished") = 1 <=> NodeOutputs = 3)

\* a streaming run that loaded a checkpoint holding sources, draft and report
\* went through the three stages and yielded finished
C18_AllStagesOverFullCheckpoint ==
    /\ driver = "api"
    /\ {"sources", "draft", "report"} \subseteq DOMAIN gen.loaded
    /\ Len(yielded) = 8
    /\ NodeOutputs = 3

\* the key each stage writes, in stage order
StageKeys == <<"sources", "draft", "report">>

\* the stages a blocking run has completed
StagesDone(run) ==
    CASE run.pc = "search" -> 0
      [] run.pc = "draft" -> 1
      [] run.pc = "report" -> 2
      [] OTHER -> 3

\* the i-th save of a run stores the output of the i-th stage
SavesFollowStages(saves) ==
    /\ Len(saves) <= 3
    /\ \A i \in 1..Len(saves) : StageKeys[i] \in DOMAIN saves[i].state

\* the node_output events of the streaming run, in order
OutputEvents ==
    LET IsOutput(ev) == EventOf(ev) = "node_output"
    IN  SelectSeq(yielded, IsOutput)

\* C19: a run has made exactly one save per stage that returned, the i-th
\* save storing the state with the output of the i-th stage; in streaming
\* mode the save of a stage is made when its node_output is yielded and holds
\* what the event shows; a blocking run that returned made three saves and
\* returned the state it saved last, and the report of finished is the report
\* saved last
C19_OneSavePerStageLastIsResult ==
    /\ \A r \in RunIds :
          runs[r].pc \notin {"idle", "raised"} =>
              /\ Len(SavesOf(r)) = StagesDone(runs[r])
              /\ SavesFollowStages(SavesOf(r))
              /\ Len(SavesOf(r)) >= 1 => Last(SavesOf(r)).state = runs[r].state
              /\ Len(SavesOf(r)) >= 1 => SavesOf(r)[1].state["sources"] = runs[r].results
    /\ \A r \in RunIds : runs[r].pc = "raised" => SavesFollowStages(SavesOf(r))
    /\ driver = "api" \/ StreamReturned =>
          LET saves == SavesOf("stream")
          IN  /\ Len(saves) = NodeOutputs
              /\ SavesFollowStages(saves)
              /\ Len(saves) >= 1 =>
                    OutputEvents[1].payload.sources = saves[1].state["sources"]
              /\ Len(saves) >= 2 =>
                    OutputEvents[2].payload.draft_preview = Preview(saves[2].state["draft"])
              /\ Len(saves) >= 3 =>
                    OutputEvents[3].payload.report = saves[3].state["report"]
              /\ CountEvents(yielded, "finished") = 1 =>
                    /\ Len(saves) = 3
                    /\ Last(yielded).payload.report = saves[3].state["report"]

\* the first blocking run returned after its three saves while the second,
\* started meanwhile, has made one save; the backends are reachable
C19_ThreeSavesThenReturn ==
    /\ ~down
    /\ runs["r1"].pc = "done"
    /\ runs["r2"].pc = "draft"
    /\ Len(SavesOf("r1")) = 3
    /\ Last(saveLog).run = "r1"

\* the checkpoint stored for the conversation of the blocking runs, as a
\* load of it returns it when the backends are reachable
Stored == load_checkpoint(Store, memory, "u1", "t1", NoFault).result

BothReturned == \A r \in RunIds : runs[r].pc = "done"

\* the stored checkpoint is the final state of the run that saved last, its
\* question, sources, draft and report being that run's
StoredIsLastWriters ==
    LET last == runs[Last(saveLog).run]
    IN  /\ Stored = last.state
        /\ Stored["question"] = last.question
        /\ Stored["sources"] = last.results
        /\ Stored["draft"] = draft_node(EmptyState, last.llm)["draft"]
        /\ Stored["report"] = report_node(Stored)["report"]

StatesOf(saves) == [i \in 1..Len(saves) |-> saves[i].state]

\* the blocking run returned and the streaming run, made for the same
\* question and key, having loaded the same checkpoint and got the same
\* results from search and generation, has yielded its last event
SameInputsBothDone ==
    /\ runs["r1"].pc = "done"
    /\ driver = "api"
    /\ gen.pc = "finished"
    /\ gen.question = runs["r1"].question
    /\ gen.user_id = runs["r1"].user_id
    /\ gen.thread_id = runs["r1"].thread_id
    /\ gen.loaded = runs["r1"].loaded
    /\ gen.results = runs["r1"].results
    /\ gen.llm = runs["r1"].llm

\* C21: on the same question, key, loaded checkpoint and collaborator
\* results, the blocking run and the streaming run consumed to its last event
\* made the same sequence of saves with equal states and ended in the same
\* state, and the report of the finished event is the report of the state
\* the blocking run returned
C21_ModesSaveAndEndAlike ==
    SameInputsBothDone =>
        /\ StatesOf(SavesOf("stream")) = StatesOf(SavesOf("r1"))
        /\ Len(SavesOf("stream")) = 3
        /\ gen.state = runs["r1"].state
        /\ EventOf(Last(yielded)) = "finished"
        /\ Last(yielded).payload.report = runs["r1"].state["report"]

\* both modes ran over the checkpoint of another writer, with two sources
\* and a generated draft
C21_BothModesOverForeignCheckpoint ==
    /\ SameInputsBothDone
    /\ gen.loaded = ForeignState
    /\ Len(gen.results) = 2
    /\ gen.llm = "ok"

---------------------------------------------------------------------------
(* The specification of the event normalizer: _process_and_publish_event    *)
(* called with texts, each the one before with one more token                *)

DataPrefixUpper == [k |-> "DATA:"]
JsonA == Json([a |-> 1])
JsonB == Json([b |-> 2])
Tokens == {Sp, Nl, DataPrefix, DataPrefixUpper, LBrace, RBrace, Word, JsonA, JsonB}

\* 'data: {"a":1}', a blank line, 'data: {"b":2}'
TwoBlocks == <<DataPrefix, Sp, JsonA, Nl, Nl, DataPrefix, Sp, JsonB>>
\* 'hello world'
HelloWorld == <<Word, Sp, Word>>
\* the texts the exploration starts from
NormSeeds == {<<>>, TwoBlocks, HelloWorld}

\* lines 109-143 with a text event
NormalizeText(t) ==
    /\ nreq > 0
    /\ nreq' = nreq - 1
    /\ raw_text' = Append(raw_text, t)
    /\ published' = ProcessEvent(Text(raw_text'))
    /\ UNCHANGED <<storeVars, storeHist, faults, workerVars, saveLog, runs, clientVars>>

NormInit ==
    /\ memory = NoMemory
    /\ down = FALSE
    /\ EmptyStore
    /\ lastSave = [id \in Ids |-> NoSave]
    /\ lastCall = NoCall
    /\ nreq = MaxText
    /\ faults = 0
    /\ event_channel = Unset
    /\ driver = "none"
    /\ gen = NoGen
    /\ yielded = <<>>
    /\ outcome = NoOutcome
    /\ handled = <<>>
    /\ jobLog = <<>>
    /\ chan = [c \in Channels |-> NoValue]
    /\ sentNow = <<>>
    /\ lastMsg = "none"
    /\ saveLog = <<>>
    /\ runs = NoRuns
    /\ ClientIdle
    /\ raw_text \in NormSeeds
    /\ published = ProcessEvent(Text(raw_text))

NormNext == \E t \in Tokens : NormalizeText(t)

NormSpec == NormInit /\ [][NormNext]_vars

\* the text does not parse as a whole
NotWholeJson == ~JsonLoads(Strip(raw_text)).ok

\* the blocks of the text: its parts between blank-line boundaries, each
\* stripped, its lines without their data: prefix and merged
MergedBlocks ==
    LET blocks == SplitSse[Strip(raw_text)]
    IN  [i \in 1..Len(blocks) |-> MergeBlock(Strip(blocks[i]))]

NonEmptyText(text) == text # <<>>

NonEmptyBlocks == SelectSeq(MergedBlocks, NonEmptyText)

\* C15: a text that does not parse as a whole gives one published event per
\* block that is non-empty once its data: prefixes are stripped and its lines
\* merged, the i-th event made from the i-th such block; the two blocks
\* 'data: {"a":1}' and 'data: {"b":2}' give {"a":1} then {"b":2}; an empty
\* or whitespace-only text gives no event
C15_OneEventPerBlockInOrder ==
    /\ NotWholeJson =>
          /\ Len(published) = Len(NonEmptyBlocks)
          /\ \A i \in 1..Len(published) : published[i] = ParseBlock(NonEmptyBlocks[i])
    /\ raw_text = TwoBlocks => published = <<[a |-> 1], [b |-> 2]>>
    /\ Strip(raw_text) = <<>> => published = <<>>

\* a text of three blocks, two data: lines with an object each and a line of
\* plain text, gave three events in block order
C15_ThreeBlocksPublished ==
    /\ raw_text = TwoBlocks \o <<Nl, Nl, Word>>
    /\ published = <<[a |-> 1], [b |-> 2], [raw |-> <<Word>>]>>

\* the substring from the first opening brace to the last closing brace,
\* parsed as JSON
Extracted(merged) ==
    IF Candidate(merged) = <<>> THEN ParseFail ELSE JsonLoads(Candidate(merged))

\* the texts the parser chain is applied to: the whole text when it parses,
\* else its non-empty merged blocks
ChainInputs == IF NotWholeJson THEN NonEmptyBlocks ELSE <<Strip(raw_text)>>

\* C16: each non-empty merged block gives exactly one event: the block
\* parsed as JSON when that succeeds; else the text from its first '{' to its
\* last '}' parsed as JSON when that succeeds; else {raw: block}; the text
\* 'hello world' gives the one event {"raw": "hello world"}
C16_FirstParserThatSucceeds ==
    /\ Len(published) = Len(ChainInputs)
    /\ \A i \in 1..Len(ChainInputs) :
          LET merged == ChainInputs[i]
          IN  IF JsonLoads(merged).ok THEN published[i] = JsonLoads(merged).v
              ELSE IF Extracted(merged).ok THEN published[i] = Extracted(merged).v
              ELSE published[i] = [raw |-> merged]
    /\ raw_text = HelloWorld => published = <<[raw |-> HelloWorld]>>

\* 'hello world {"a":1}' gave the object between the braces
C16_ExtractedFromProse ==
    /\ raw_text = HelloWorld \o <<Sp, JsonA>>
    /\ published = <<[a |-> 1]>>

---------------------------------------------------------------------------
(* The specification of the typewriter client, given a text on its input *)

ClientTokens == {Word, Nl, Marker}

\* the texts of up to MaxInput tokens
ClientTexts == UNION {[1..n -> ClientTokens] : n \in 0..MaxInput}

\* lines 22-50: one iteration of `for line in sys.stdin`
TypeLine ==
    LET n == LineEnd(stdin)
        input_buffer == SubSeq(stdin, 1, n)
        r == Typewrite[input_buffer]
    IN  /\ client = "reading"
        /\ stdin # <<>>
        /\ stdin' = SubSeq(stdin, n + 1, Len(stdin))
        /\ stdout' = stdout \o r.out
        /\ stderr' = stderr \o r.err
        /\ UNCHANGED <<storeVars, storeHist, nreq, faults, workerVars, saveLog, runs,
                       raw_text, published, stream_text, client>>

\* lines 52-54: the input is at its end, the final newline is written
TypeEnd ==
    /\ client = "reading"
    /\ stdin = <<>>
    /\ stdout' = Append(stdout, Nl)
    /\ client' = "done"
    /\ UNCHANGED <<storeVars, storeHist, nreq, faults, workerVars, saveLog, runs,
                   raw_text, published, stdin, stderr, stream_text>>

TypeInit ==
    /\ memory = NoMemory
    /\ down = FALSE
    /\ EmptyStore
    /\ lastSave = [id \in Ids |-> NoSave]
    /\ lastCall = NoCall
    /\ nreq = 0
    /\ faults = 0
    /\ event_channel = Unset
    /\ driver = "none"
    /\ gen = NoGen
    /\ yielded = <<>>
    /\ outcome = NoOutcome
    /\ handled = <<>>
    /\ jobLog = <<>>
    /\ chan = [c \in Channels |-> NoValue]
    /\ sentNow = <<>>
    /\ lastMsg = "none"
    /\ saveLog = <<>>
    /\ runs = NoRuns
    /\ raw_text = <<>>
    /\ published = <<>>
    /\ stream_text \in ClientTexts
    /\ stdin = stream_text
    /\ stdout = <<>>
    /\ stderr = <<>>
    /\ client = "reading"

TypeNext == TypeLine \/ TypeEnd

TypeSpec == TypeInit /\ [][TypeNext]_vars

\* the i-th token of the text is a marker with a newline on each side
Delimited(i) ==
    /\ 1 < i
    /\ i < Len(stream_text)
    /\ stream_text[i] = Marker
    /\ stream_text[i - 1] = Nl
    /\ stream_text[i + 1] = Nl

\* a text without its newlines
Visible(text) ==
    LET NotNl(t) == t # Nl
    IN  SelectSeq(text, NotNl)

\* the input without the markers delimited by newlines and without newlines
ContentOfInput ==
    LET Upto[i \in 0..Len(stream_text)] ==
            IF i = 0 THEN <<>>
            ELSE Upto[i - 1] \o (IF Delimited(i) \/ stream_text[i] = Nl
                                 THEN <<>> ELSE <<stream_text[i]>>)
    IN  Upto[Len(stream_text)]

\* C23 as stated: when the client has read its whole input, each marker
\* delimited by newlines was printed to the control output and is absent from
\* the content output, which holds everything else in the original order
\* (newlines left aside)
C23_MarkersAreControlLines ==
    client = "done" =>
        /\ Len(stderr) = Cardinality({i \in 1..Len(stream_text) : Delimited(i)})
        /\ Visible(stdout) = ContentOfInput

=============================================================================
